---------------------------- MODULE Spec2Model ----------------------------
(***************************************************************************)
(* Model of the two FastAPI services of pierre-architecte:                 *)
(*   api/architecte.py  ("Architecte API", secret API_TOKEN)               *)
(*   api/pierre.py      ("Pierre", secret AUREL_TOKEN)                     *)
(* Each handler is a pure operator from (environment, request, answers of  *)
(* the remote store) to (response, remote calls issued, log-write result). *)
(* One action per route applies its handler to a request.                  *)
(*                                                                         *)
(* Python str values that the code inspects (secrets, header values,       *)
(* database ids) are sequences of one-character strings; None is a         *)
(* distinguished value.  Names used only as dictionary keys (aliases,      *)
(* environment variable names, property names) are atomic strings.         *)
(***************************************************************************)
EXTENDS Integers, Sequences, FiniteSets

VARIABLES env, req, resp, calls, logw

vars == <<env, req, resp, calls, logw>>

\* ------------------------------------------------------------------ bounds
\* Largest number of properties of a schema in the schema-diff specification.
MaxProps == 2
\* Largest number of properties of a schema in the service specification.
MaxSvcProps == 1
\* Largest number of rows the remote store answers to a query.
MaxRows == 1

\* ----------------------------------------------------------- Python values
None == <<"None">>

\* Python truthiness of an Optional[str]: `if v` / `not v`.
Truthy(v) == v # None /\ v # <<>>

S3CR3T == <<"s", "3", "c", "r", "3", "t">>
WRONG == <<"w", "r", "o", "n", "g">>
NOTION_SECRET == <<"n", "t", "n", "_", "0", "1", "2", "3", "4", "5">>
FWK_ID == <<"f", "w", "k", "-", "0", "0", "0", "0", "1">>
MODULE_ID == <<"m", "o", "d", "-", "0", "0", "0", "0", "2">>
LOGS_ID == <<"l", "o", "g", "-", "0", "0", "0", "0", "3">>
PAGE_ID == <<"p", "g", "-", "7">>

\* Environment variables the two services read.
EnvKeys == {"NOTION_TOKEN", "API_TOKEN", "AUREL_TOKEN",
            "FWK_DB_ID", "MODULE_DB_ID", "LOGS_DB_ID"}

\* os.getenv(k): None for a variable that is not set.
getenv(k) == IF k \in DOMAIN env THEN env[k] ELSE None

\* str.lower() on the characters the header values use.
LowerChar(c) ==
    CASE c = "B" -> "b"
      [] c = "E" -> "e"
      [] c = "A" -> "a"
      [] c = "R" -> "r"
      [] c = "S" -> "s"
      [] c = "I" -> "i"
      [] c = "C" -> "c"
      [] OTHER -> c

lower(s) == [i \in 1..Len(s) |-> LowerChar(s[i])]

startswith(s, p) == Len(s) >= Len(p) /\ SubSeq(s, 1, Len(p)) = p

\* Index of the first space of s, 0 when there is none.
FirstSpace(s) ==
    IF \E i \in 1..Len(s) : s[i] = " "
    THEN CHOOSE i \in 1..Len(s) : s[i] = " " /\ \A j \in 1..(i - 1) : s[j] # " "
    ELSE 0

\* s.split(" ", 1)[1]: what follows the first space.
AfterFirstSpace(s) == SubSeq(s, FirstSpace(s) + 1, Len(s))

\* str.strip() for the space character.
RECURSIVE strip(_)
strip(s) ==
    IF s = <<>> THEN s
    ELSE IF Head(s) = " " THEN strip(Tail(s))
    ELSE IF s[Len(s)] = " " THEN strip(SubSeq(s, 1, Len(s) - 1))
    ELSE s

BEARER_ == <<"b", "e", "a", "r", "e", "r", " ">>

\* ------------------------------------------------------------- remote store
\* The type tags of the remote store; NoType is a property whose metadata
\* carries no "type" key.
NoType == "<absent>"
TypeTags == {"title", "rich_text"}
PropNames == {"Name", "Owner", "Status"}
SvcNames == {"Name", "Status"}

\* A property list, in the key order of the remote payload.
Prop(n, t) == [name |-> n, type |-> t]

Names(s) == {s[i].name : i \in 1..Len(s)}

\* The property lists of exactly n properties with distinct names.
RECURSIVE SchemasOfLen(_, _)
SchemasOfLen(names, n) ==
    IF n = 0 THEN {<<>>}
    ELSE {Append(s, Prop(nm, t)) :
            s \in SchemasOfLen(names, n - 1), nm \in names,
            t \in TypeTags \cup {NoType}}

UniqueKeys(s) == \A i, j \in 1..Len(s) : s[i].name = s[j].name => i = j

SchemasUpTo(names, n) ==
    UNION {{s \in SchemasOfLen(names, k) : UniqueKeys(s)} : k \in 0..n}

\* dict lookup d[k]["type"] on a property list with unique keys.
TypeOf(s, k) == s[CHOOSE i \in 1..Len(s) : s[i].name = k].type

\* list(d): the keys of a property list, in order.
Keys(s) == [i \in 1..Len(s) |-> s[i].name]

\* What the remote store answers to one call: ok = FALSE is a raised error;
\* props is the "properties" payload of a database, rows the "results" of a
\* query.
Answer(ok, props) ==
    [ok |-> ok, props |-> IF ok THEN props ELSE <<>>, rows |-> <<>>]

\* The answer of a call the remote store refuses, or that is never issued.
Refused == Answer(FALSE, <<>>)

\* The answer to a query of a database whose schema is props: its rows.
QueryAnswer(props, rows) == [ok |-> TRUE, props |-> props, rows |-> rows]

\* One remote call as the service issued it: the function that issued it,
\* the remote operation, the id it targets, the property names of the
\* payload it sent, and what the remote store answered (for a page creation
\* and for a query, props is the schema of the target database at that time).
Call(site, op, target, keys, ok, props) ==
    [site |-> site, op |-> op, target |-> target, keys |-> keys,
     ok |-> ok, props |-> props]

\* ---------------------------------------------------------------- responses
Resp(status, detail) ==
    [status |-> status, detail |-> detail,
     missing |-> <<>>, extra |-> <<>>, type_mismatch |-> <<>>,
     schema |-> <<>>, items |-> <<>>, report |-> <<>>]

NoResp == Resp(0, "")

\* What a handler leaves behind: the response, the remote calls in the order
\* issued, and the outcome of the log write ("none": no log write attempted).
Out(r, c, l) == [resp |-> r, calls |-> c, logw |-> l]

\* ------------------------------------------------------ api/architecte.py
API_TOKEN == getenv("API_TOKEN")
NOTION_TOKEN == getenv("NOTION_TOKEN")

\* notion = Client(auth=NOTION_TOKEN) if NOTION_TOKEN else None
notion == Truthy(NOTION_TOKEN)

\* The aliases of DBS that the model keeps, each with its variable.
DBS == [fwk |-> getenv("FWK_DB_ID"),
        agent |-> getenv("AGENT_DB_ID"),
        module |-> getenv("MODULE_DB_ID"),
        logs |-> getenv("LOGS_DB_ID")]

\* DBS.get(k)
DBS_get(k) == IF k \in DOMAIN DBS THEN DBS[k] ELSE None

_read_token_from_headers(x_token, authorization) ==
    IF Truthy(x_token) THEN x_token
    ELSE IF Truthy(authorization) /\ startswith(lower(authorization), BEARER_)
    THEN strip(AfterFirstSpace(authorization))
    ELSE None

\* The status require_token raises, 0 when it returns.
require_token(x_token, authorization) ==
    IF ~Truthy(API_TOKEN) THEN 0
    ELSE LET token == _read_token_from_headers(x_token, authorization)
         IN  IF token = None THEN 401
             ELSE IF token # API_TOKEN THEN 403
             ELSE 0

AuthError(st) ==
    Resp(st, IF st = 401 THEN "X-Token manquant" ELSE "X-Token invalide")

_mask(val) ==
    IF ~Truthy(val) THEN None
    ELSE IF Len(val) > 8
         THEN SubSeq(val, 1, 4) \o <<".", ".", ".">>
              \o SubSeq(val, Len(val) - 3, Len(val))
         ELSE val

_env_status(keys) ==
    [i \in 1..Len(keys) |->
        [key |-> keys[i],
         present |-> Truthy(getenv(keys[i])),
         masked |-> _mask(getenv(keys[i]))]]

\* The status _ensure_db raises, 0 when it returns DBS[db_key].
_ensure_db(db_key) == IF ~Truthy(DBS_get(db_key)) THEN 400 ELSE 0

\* The name of the first property of type "title", None when there is none.
_first_title_prop(properties) ==
    IF \E i \in 1..Len(properties) : properties[i].type = "title"
    THEN properties[CHOOSE i \in 1..Len(properties) :
                        /\ properties[i].type = "title"
                        /\ \A j \in 1..(i - 1) : properties[j].type # "title"].name
    ELSE "<None>"

\* {name: p.get("type", "unknown")}
SchemaOf(props) ==
    [i \in 1..Len(props) |->
        Prop(props[i].name,
             IF props[i].type = NoType THEN "unknown" ELSE props[i].type)]

\* _schema_of(database_id) when the remote store answers r: whether it
\* raised, the calls it issued, the schema it returned.
_schema_of(database_id, r) ==
    IF notion
    THEN [raised |-> ~r.ok,
          calls |-> <<Call("_schema_of", "databases.retrieve", database_id,
                           {}, r.ok, r.props)>>,
          schema |-> SchemaOf(r.props)]
    ELSE IF ~Truthy(NOTION_TOKEN)
    THEN [raised |-> TRUE, calls |-> <<>>, schema |-> <<>>]
    ELSE [raised |-> ~r.ok,
          calls |-> <<Call("_schema_of", "GET /v1/databases", database_id,
                           {}, r.ok, r.props)>>,
          schema |-> SchemaOf(r.props)]

\* The property names of the page _create_log_entry builds for a logs
\* database whose metadata is props_meta.
LogProps(props_meta, level, extra) ==
    LET first == _first_title_prop(props_meta)
        title_prop == IF first = "<None>" \/ first = "" THEN "Name" ELSE first
    IN  {title_prop}
        \cup (IF "Type" \in Names(props_meta) /\ level THEN {"Type"} ELSE {})
        \cup (IF "Meta" \in Names(props_meta) /\ extra THEN {"Meta"} ELSE {})
        \cup (IF "Date du changement" \in Names(props_meta)
              THEN {"Date du changement"} ELSE {})

\* _create_log_entry(message, level, extra): level and extra are the
\* truthiness of the arguments; lg is the remote answer to the metadata read,
\* lc whether the page creation succeeds.  res is "None" or "page".
_create_log_entry(level, extra, lg, lc) ==
    LET logs_db == DBS_get("logs")
        op1 == IF notion THEN "databases.retrieve" ELSE "GET /v1/databases"
        op2 == IF notion THEN "pages.create" ELSE "POST /v1/pages"
        read == Call("_create_log_entry", op1, logs_db, {}, lg.ok, lg.props)
    IN  IF ~Truthy(logs_db) THEN [calls |-> <<>>, res |-> "None"]
        ELSE IF ~(notion \/ Truthy(NOTION_TOKEN))
        THEN [calls |-> <<>>, res |-> "None"]
        ELSE IF ~lg.ok THEN [calls |-> <<read>>, res |-> "None"]
        ELSE LET write == Call("_create_log_entry", op2, logs_db,
                               LogProps(lg.props, level, extra), lc, lg.props)
             IN  [calls |-> <<read, write>>,
                  res |-> IF lc THEN "page" ELSE "None"]

\* The log-write outcome of a request that called _create_log_entry.
LogOutcome(res) == IF res = "page" THEN "written" ELSE "failed"

\* arch_missing with the membership test inverted.
arch_missing_inverted(target, curr) ==
    SelectSeq(Keys(target), LAMBDA k : k \in Names(curr))

arch_missing(target, curr) ==
    SelectSeq(Keys(target), LAMBDA k : k \notin Names(curr))

\* arch_extra with its two arguments taken for one another.
arch_extra_of_reference(target, curr) ==
    SelectSeq(Keys(target), LAMBDA k : k \notin Names(curr))

arch_extra(target, curr) ==
    SelectSeq(Keys(curr), LAMBDA k : k \notin Names(target))

arch_type_mismatch(target, curr) ==
    SelectSeq(Keys(target),
              LAMBDA k : k \in Names(curr) /\ TypeOf(target, k) # TypeOf(curr, k))

\* arch_compare reading the current schema before it validates the reference.
arch_compare_late_ref(rq, r1, r2, lg, lc) ==
    LET auth == require_token(rq.x_token, rq.authorization)
        c == _schema_of(DBS_get(rq.db), r1)
        t == _schema_of(getenv(rq.ref), r2)
        log == _create_log_entry(TRUE, TRUE, lg, lc)
    IN  IF auth # 0 THEN Out(AuthError(auth), <<>>, "none")
        ELSE IF rq.db = "" \/ rq.ref = ""
        THEN Out(Resp(400, "Parametres db et ref requis"), <<>>, "none")
        ELSE IF _ensure_db(rq.db) # 0
        THEN Out(Resp(400, "Base inconnue ou non configuree"), <<>>, "none")
        ELSE IF c.raised
        THEN Out(Resp(500, "Internal Server Error"), c.calls, "none")
        ELSE IF ~Truthy(getenv(rq.ref))
        THEN Out(Resp(400, "Reference absente"), c.calls, "none")
        ELSE IF t.raised
        THEN Out(Resp(500, "Internal Server Error"), c.calls \o t.calls, "none")
        ELSE Out([Resp(200, "ok") EXCEPT
                    !.missing = arch_missing(t.schema, c.schema),
                    !.extra = arch_extra(t.schema, c.schema),
                    !.type_mismatch = arch_type_mismatch(t.schema, c.schema)],
                 c.calls \o t.calls \o log.calls, LogOutcome(log.res))

\* GET /architecte/compare
arch_compare(rq, r1, r2, lg, lc) ==
    LET auth == require_token(rq.x_token, rq.authorization)
        curr_id == DBS_get(rq.db)
        ref_id == getenv(rq.ref)
        c == _schema_of(curr_id, r1)
        t == _schema_of(ref_id, r2)
        log == _create_log_entry(TRUE, TRUE, lg, lc)
    IN  IF auth # 0 THEN Out(AuthError(auth), <<>>, "none")
        ELSE IF rq.db = "" \/ rq.ref = ""
        THEN Out(Resp(400, "Parametres db et ref requis"), <<>>, "none")
        ELSE IF _ensure_db(rq.db) # 0
        THEN Out(Resp(400, "Base inconnue ou non configuree"), <<>>, "none")
        ELSE IF ~Truthy(ref_id)
        THEN Out(Resp(400, "Reference absente"), <<>>, "none")
        ELSE IF c.raised
        THEN Out(Resp(500, "Internal Server Error"), c.calls, "none")
        ELSE IF t.raised
        THEN Out(Resp(500, "Internal Server Error"), c.calls \o t.calls, "none")
        ELSE Out([Resp(200, "ok") EXCEPT
                    !.missing = arch_missing(t.schema, c.schema),
                    !.extra = arch_extra(t.schema, c.schema),
                    !.type_mismatch = arch_type_mismatch(t.schema, c.schema)],
                 c.calls \o t.calls \o log.calls, LogOutcome(log.res))

\* The body of log_test, which runs once its dependency has returned.
log_test_body(lg, lc) ==
    LET log == _create_log_entry(TRUE, TRUE, lg, lc)
    IN  Out(Resp(200, "log envoye"), log.calls, LogOutcome(log.res))

\* GET /architecte/logtest
log_test(rq, lg, lc) ==
    LET auth == require_token(rq.x_token, rq.authorization)
    IN  IF auth # 0 THEN Out(AuthError(auth), <<>>, "none")
        ELSE log_test_body(lg, lc)

\* POST /architecte/edit: every exception of the body, the HTTPException of
\* _ensure_db included, is caught and raised again as a 500.
edit_entry_body(db, data, cr, sch, lg, lc) ==
    LET dbid == DBS_get(db)
        create == Call("edit_entry", "pages.create", dbid, data, cr, sch)
        log == _create_log_entry(TRUE, TRUE, lg, lc)
    IN  IF _ensure_db(db) # 0
        THEN Out(Resp(500, "400: Base inconnue ou non configuree"), <<>>, "none")
        ELSE IF ~notion
        THEN Out(Resp(500, "500: Notion client non configure"), <<>>, "none")
        ELSE IF ~cr
        THEN Out(Resp(500, "upstream error"), <<create>>, "none")
        ELSE Out(Resp(200, "Entree creee"), <<create>> \o log.calls,
                 LogOutcome(log.res))

arch_edit_entry(rq, cr, sch, lg, lc) ==
    LET auth == require_token(rq.x_token, rq.authorization)
    IN  IF auth # 0 THEN Out(AuthError(auth), <<>>, "none")
        ELSE edit_entry_body(rq.db, rq.data, cr, sch, lg, lc)

\* POST /aurel, with body {"target": rq.target, "payload": {"db": rq.db,
\* "data": rq.data}}.  The router calls edit_entry and log_test as plain
\* functions, so that their dependency is not resolved; edit_entry is not a
\* coroutine function, and awaiting the dict it returns raises TypeError
\* once the function has run.
aurel_router(rq, cr, sch, lg, lc) ==
    LET edit == edit_entry_body(rq.db, rq.data, cr, sch, lg, lc)
    IN  IF rq.target = "edit"
        THEN IF edit.resp.status = 200
             THEN Out(Resp(500, "Internal Server Error"), edit.calls, edit.logw)
             ELSE edit
        ELSE IF rq.target = "log" THEN log_test_body(lg, lc)
        ELSE Out(Resp(200, "Unknown target"), <<>>, "none")

\* GET /architecte/analyse
analyse_base(rq, r1) ==
    LET s == _schema_of(DBS_get(rq.db), r1)
    IN  IF _ensure_db(rq.db) # 0
        THEN Out(Resp(400, "Base inconnue ou non configuree"), <<>>, "none")
        ELSE IF s.raised THEN Out(Resp(500, "upstream error"), s.calls, "none")
        ELSE Out([Resp(200, "ok") EXCEPT !.schema = s.schema], s.calls, "none")

\* The keys debug_env_status reports, those of them the model keeps.
env_keys == <<"NOTION_TOKEN", "API_TOKEN", "FWK_DB_ID", "MODULE_DB_ID",
              "LOGS_DB_ID">>

\* GET /debug/env_status
debug_env_status ==
    Out([Resp(200, "ok") EXCEPT !.report = _env_status(env_keys)], <<>>, "none")

\* A row of a query answer: its id and its property cells; a cell carries
\* its type and, under "title", a list of text runs (plain_text each).
Cell(n, t, runs) == [name |-> n, type |-> t, title |-> runs]

Row(id, cells) == [id |-> id, properties |-> cells]

\* "".join(part.get("plain_text", "") for part in title_parts)
RECURSIVE join(_)
join(parts) == IF parts = <<>> THEN <<>> ELSE Head(parts) \o join(Tail(parts))

\* RowTitle keeping the first text run only.
RowTitle_first_run(r, title_prop) ==
    IF \E i \in 1..Len(r.properties) : r.properties[i].name = title_prop
    THEN LET tp == r.properties[CHOOSE i \in 1..Len(r.properties) :
                                    r.properties[i].name = title_prop]
         IN  IF tp.type = "title" /\ tp.title # <<>> THEN Head(tp.title)
             ELSE <<>>
    ELSE <<>>

\* The title get_rows derives for row r under the property name title_prop.
RowTitle(r, title_prop) ==
    IF \E i \in 1..Len(r.properties) : r.properties[i].name = title_prop
    THEN LET tp == r.properties[CHOOSE i \in 1..Len(r.properties) :
                                    r.properties[i].name = title_prop]
         IN  IF tp.type = "title" THEN join(tp.title) ELSE <<>>
    ELSE <<>>

\* _query_database(database_id, page_size) when the remote store answers q.
_query_database(database_id, q) ==
    IF notion
    THEN [raised |-> ~q.ok,
          calls |-> <<Call("_query_database", "databases.query", database_id,
                           {}, q.ok, q.props)>>]
    ELSE IF ~Truthy(NOTION_TOKEN)
    THEN [raised |-> TRUE, calls |-> <<>>]
    ELSE [raised |-> ~q.ok,
          calls |-> <<Call("_query_database", "POST /v1/databases/query",
                           database_id, {}, q.ok, q.props)>>]

\* GET /architecte/rows: q answers the query, r1 the metadata read whose
\* failure is swallowed.
get_rows(rq, q, r1) ==
    LET dbid == DBS_get(rq.db)
        res == _query_database(dbid, q)
        metacall == IF notion
                    THEN <<Call("get_rows", "databases.retrieve", dbid, {},
                                r1.ok, r1.props)>>
                    ELSE <<>>
        meta == IF notion /\ r1.ok THEN r1.props ELSE <<>>
        first == _first_title_prop(meta)
        title_prop == IF first = "<None>" \/ first = "" THEN "title" ELSE first
        items == [i \in 1..Len(q.rows) |->
                    [id |-> q.rows[i].id,
                     title |-> RowTitle(q.rows[i], title_prop),
                     properties |-> q.rows[i].properties]]
    IN  IF _ensure_db(rq.db) # 0
        THEN Out(Resp(400, "Base inconnue ou non configuree"), <<>>, "none")
        ELSE IF res.raised THEN Out(Resp(500, "upstream error"), res.calls, "none")
        ELSE Out([Resp(200, "ok") EXCEPT !.items = items],
                 res.calls \o metacall, "none")

\* ---------------------------------------------------------- api/pierre.py
DB_IDS == [fwk |-> getenv("FWK_DB_ID"),
           agent |-> getenv("AGENT_DB_ID"),
           module |-> getenv("MODULE_DB_ID"),
           logs |-> getenv("LOGS_DB_ID")]

\* DB_IDS.get(k)
DB_IDS_get(k) == IF k \in DOMAIN DB_IDS THEN DB_IDS[k] ELSE None

\* The status verify_token raises, 0 when it returns True.
verify_token(rq) ==
    IF rq.x_aurel_token # getenv("AUREL_TOKEN") THEN 403 ELSE 0

\* The status get_notion raises, 0 when it returns a client.
get_notion == IF ~Truthy(getenv("NOTION_TOKEN")) THEN 500 ELSE 0

Retrieve(site, id, r) ==
    Call(site, "databases.retrieve", id, {}, r.ok, r.props)

\* GET /architecte/analyse: v["type"] raises on a property without a type.
pierre_analyse(rq, r1) ==
    LET db_id == DB_IDS_get(rq.db)
        call == <<Retrieve("analyse", db_id, r1)>>
    IN  IF ~Truthy(db_id) THEN Out(Resp(400, "Base inconnue"), <<>>, "none")
        ELSE IF get_notion # 0
        THEN Out(Resp(500, "NOTION_TOKEN manquant"), <<>>, "none")
        ELSE IF ~r1.ok THEN Out(Resp(500, "Internal Server Error"), call, "none")
        ELSE IF \E i \in 1..Len(r1.props) : r1.props[i].type = NoType
        THEN Out(Resp(500, "Internal Server Error"), call, "none")
        ELSE Out([Resp(200, "ok") EXCEPT !.schema = r1.props], call, "none")

pierre_missing(ref_schema, base_schema) ==
    SelectSeq(Keys(ref_schema), LAMBDA k : k \notin Names(base_schema))

pierre_extra(ref_schema, base_schema) ==
    SelectSeq(Keys(base_schema), LAMBDA k : k \notin Names(ref_schema))

pierre_type_mismatch(ref_schema, base_schema) ==
    SelectSeq(Keys(base_schema),
              LAMBDA k : /\ k \in Names(ref_schema)
                         /\ TypeOf(base_schema, k) # TypeOf(ref_schema, k))

\* base_schema[k]["type"] / ref_schema[k]["type"] raises KeyError on a
\* property present on both sides that carries no type on one of them.
TypeKeyError(ref_schema, base_schema) ==
    \E k \in Names(base_schema) \cap Names(ref_schema) :
        TypeOf(base_schema, k) = NoType \/ TypeOf(ref_schema, k) = NoType

\* GET /architecte/compare
pierre_compare(rq, r1, r2) ==
    LET base_id == DB_IDS_get(rq.db)
        ref_id == getenv(rq.ref)
        c1 == <<Retrieve("compare", base_id, r1)>>
        c2 == <<Retrieve("compare", ref_id, r2)>>
    IN  IF ~Truthy(base_id) \/ ~Truthy(ref_id)
        THEN Out(Resp(400, "Base ou reference manquante"), <<>>, "none")
        ELSE IF get_notion # 0
        THEN Out(Resp(500, "NOTION_TOKEN manquant"), <<>>, "none")
        ELSE IF ~r1.ok THEN Out(Resp(500, "Internal Server Error"), c1, "none")
        ELSE IF ~r2.ok
        THEN Out(Resp(500, "Internal Server Error"), c1 \o c2, "none")
        ELSE IF TypeKeyError(r2.props, r1.props)
        THEN Out(Resp(500, "Internal Server Error"), c1 \o c2, "none")
        ELSE Out([Resp(200, "ok") EXCEPT
                    !.missing = pierre_missing(r2.props, r1.props),
                    !.extra = pierre_extra(r2.props, r1.props),
                    !.type_mismatch = pierre_type_mismatch(r2.props, r1.props)],
                 c1 \o c2, "none")

\* The page properties create_log and logtest send.
PierreLogKeys == {"Description du changement", "Date du changement"}

\* POST /architecte/log: cr is whether the page creation succeeds, sch the
\* schema of the logs database.
create_log(rq, cr, sch) ==
    LET db_id == DB_IDS_get("logs")
        create == <<Call("create_log", "pages.create", db_id, PierreLogKeys,
                         cr, sch)>>
    IN  IF verify_token(rq) # 0 THEN Out(Resp(403, "Token invalide"), <<>>, "none")
        ELSE IF ~Truthy(db_id)
        THEN Out(Resp(500, "Base Logs non configuree"), <<>>, "failed")
        ELSE IF get_notion # 0
        THEN Out(Resp(500, "NOTION_TOKEN manquant"), <<>>, "failed")
        ELSE IF ~cr THEN Out(Resp(500, "Internal Server Error"), create, "failed")
        ELSE Out(Resp(200, "log envoye"), create, "written")

\* POST /logtest
logtest(rq, cr, sch) ==
    LET db_id == DB_IDS_get("logs")
        create == <<Call("logtest", "pages.create", db_id, PierreLogKeys,
                         cr, sch)>>
    IN  IF verify_token(rq) # 0 THEN Out(Resp(403, "Token invalide"), <<>>, "none")
        ELSE IF ~Truthy(db_id)
        THEN Out(Resp(500, "LOGS_DB_ID non trouve"), <<>>, "failed")
        ELSE IF get_notion # 0
        THEN Out(Resp(500, "NOTION_TOKEN manquant"), <<>>, "failed")
        ELSE IF ~cr THEN Out(Resp(500, "Internal Server Error"), create, "failed")
        ELSE Out(Resp(200, "LogTest reussi"), create, "written")

\* POST /architecte/edit
pierre_edit_entry(rq, cr, sch) ==
    LET db_id == DB_IDS_get(rq.db)
        create == <<Call("edit_entry", "pages.create", db_id, rq.data, cr, sch)>>
    IN  IF verify_token(rq) # 0 THEN Out(Resp(403, "Token invalide"), <<>>, "none")
        ELSE IF ~Truthy(db_id) THEN Out(Resp(400, "Base inconnue"), <<>>, "none")
        ELSE IF get_notion # 0
        THEN Out(Resp(500, "NOTION_TOKEN manquant"), <<>>, "none")
        ELSE IF ~cr THEN Out(Resp(500, "Internal Server Error"), create, "none")
        ELSE Out(Resp(200, "ok"), create, "none")

\* POST /architecte/delete
delete_entry(rq, cr) ==
    LET update == <<Call("delete_entry", "pages.update", rq.page_id,
                         {"archived"}, cr, <<>>)>>
    IN  IF verify_token(rq) # 0 THEN Out(Resp(403, "Token invalide"), <<>>, "none")
        ELSE IF ~Truthy(rq.page_id)
        THEN Out(Resp(400, "page_id manquant"), <<>>, "none")
        ELSE IF get_notion # 0
        THEN Out(Resp(500, "NOTION_TOKEN manquant"), <<>>, "none")
        ELSE IF ~cr THEN Out(Resp(500, "Internal Server Error"), update, "none")
        ELSE Out(Resp(200, "Page supprimee"), update, "none")

\* POST /architecte/update
update_fields(rq, cr) ==
    LET update == <<Call("update_fields", "pages.update", rq.page_id,
                         rq.data, cr, <<>>)>>
    IN  IF verify_token(rq) # 0 THEN Out(Resp(403, "Token invalide"), <<>>, "none")
        ELSE IF get_notion # 0
        THEN Out(Resp(500, "NOTION_TOKEN manquant"), <<>>, "none")
        ELSE IF ~cr THEN Out(Resp(500, "Internal Server Error"), update, "none")
        ELSE Out(Resp(200, "Page mise a jour"), update, "none")

\* POST /architecte/sync
sync_schema(rq, r1, r2) ==
    LET base_id == DB_IDS_get(rq.db)
        ref_id == DB_IDS_get("fwk")
        c1 == <<Retrieve("sync_schema", base_id, r1)>>
        c2 == <<Retrieve("sync_schema", ref_id, r2)>>
    IN  IF verify_token(rq) # 0 THEN Out(Resp(403, "Token invalide"), <<>>, "none")
        ELSE IF ~Truthy(base_id) \/ ~Truthy(ref_id)
        THEN Out(Resp(400, "Base ou reference manquante"), <<>>, "none")
        ELSE IF get_notion # 0
        THEN Out(Resp(500, "NOTION_TOKEN manquant"), <<>>, "none")
        ELSE IF ~r1.ok THEN Out(Resp(500, "Internal Server Error"), c1, "none")
        ELSE IF ~r2.ok
        THEN Out(Resp(500, "Internal Server Error"), c1 \o c2, "none")
        ELSE Out([Resp(200, "ok") EXCEPT
                    !.missing = pierre_missing(r2.props, r1.props)],
                 c1 \o c2, "none")

\* ------------------------------------------------------------------ requests
Rq(app, route, xt, au, xa, db, ref, pid, data) ==
    [app |-> app, route |-> route, x_token |-> xt, authorization |-> au,
     x_aurel_token |-> xa, db |-> db, ref |-> ref, page_id |-> pid,
     data |-> data, target |-> ""]

NoReq == Rq("", "", None, None, None, "", "", None, {})

Bearer(tok) == <<"B", "e", "a", "r", "e", "r", " ">> \o tok
BEARER_PADDED(tok) == <<"B", "E", "A", "R", "E", "R", " ", " ">> \o tok \o <<" ">>
Basic(tok) == <<"B", "a", "s", "i", "c", " ">> \o tok

\* (X-Token, Authorization) of the requests to the Architecte API.
ArchHeaders ==
    {<<None, None>>, <<S3CR3T, None>>, <<WRONG, None>>, <<<<>>, None>>,
     <<None, Bearer(S3CR3T)>>, <<None, BEARER_PADDED(S3CR3T)>>,
     <<None, Bearer(WRONG)>>, <<None, Basic(S3CR3T)>>,
     <<WRONG, Bearer(S3CR3T)>>}

\* X-Aurel-Token of the requests to Pierre.
PierreHeaders == {None, <<>>, S3CR3T, WRONG}

\* db: AllowedDB on the Architecte API, any string on Pierre.
ArchDbs == {"fwk", "module"}
PierreDbs == {"fwk", "module", "zzz"}
Refs == {"FWK_DB_ID", "NOPE"}

ArchReq(route, h, db, ref, data) ==
    Rq("architecte", route, h[1], h[2], None, db, ref, None, data)

PierreReq(route, xa, db, ref, pid, data) ==
    Rq("pierre", route, None, None, xa, db, ref, pid, data)

ArchCompareReqs ==
    {ArchReq("compare", h, db, ref, {}) :
        h \in ArchHeaders, db \in ArchDbs, ref \in Refs}
ArchLogtestReqs == {ArchReq("logtest", h, "", "", {}) : h \in ArchHeaders}
ArchEditReqs ==
    {ArchReq("edit", h, db, "", {"Name"}) : h \in ArchHeaders, db \in ArchDbs}
\* POST /aurel: the alias of the payload is any string.
AurelHeaders == {<<None, None>>, <<S3CR3T, None>>, <<WRONG, None>>}
AurelReqs ==
    {[ArchReq("aurel", h, db, "", {"Name"}) EXCEPT !.target = t] :
        h \in AurelHeaders, db \in {"fwk", "zzz"}, t \in {"edit", "log", "nope"}}
ArchAnalyseReqs ==
    {ArchReq("analyse", <<None, None>>, db, "", {}) : db \in ArchDbs}
ArchRowsReqs == {ArchReq("rows", <<None, None>>, db, "", {}) : db \in ArchDbs}
ArchEnvReqs == {ArchReq("env_status", <<None, None>>, "", "", {})}

PierreAnalyseReqs ==
    {PierreReq("analyse", None, db, "", None, {}) : db \in PierreDbs}
PierreCompareReqs ==
    {PierreReq("compare", xa, db, ref, None, {}) :
        xa \in {None, S3CR3T}, db \in PierreDbs, ref \in Refs}
PierreLogReqs == {PierreReq("log", xa, "", "", None, {}) : xa \in PierreHeaders}
PierreLogtestReqs ==
    {PierreReq("logtest", xa, "", "", None, {}) : xa \in PierreHeaders}
PierreEditReqs ==
    {PierreReq("edit", xa, db, "", None, {"Name"}) :
        xa \in PierreHeaders, db \in PierreDbs}
PierreDeleteReqs ==
    {PierreReq("delete", xa, "", "", pid, {}) :
        xa \in PierreHeaders, pid \in {<<>>, PAGE_ID}}
PierreUpdateReqs ==
    {PierreReq("update", xa, "", "", PAGE_ID, {"Status"}) : xa \in PierreHeaders}
PierreSyncReqs ==
    {PierreReq("sync", xa, db, "", None, {}) :
        xa \in PierreHeaders, db \in PierreDbs}

\* ------------------------------------------------------- remote answers
\* Answers to a metadata read in the service specification.
SvcAnswers == {Refused} \cup {Answer(TRUE, s) : s \in SchemasUpTo(SvcNames, MaxSvcProps)}

\* Answers to a metadata read in the schema-diff specification.
DiffAnswers == {Refused} \cup {Answer(TRUE, s) : s \in SchemasUpTo(PropNames, MaxProps)}

\* Layouts of the logs database: with or without a title property, with any
\* of the auxiliary properties.
LogTitles == {<<>>, <<Prop("Titre", "title")>>}
LogAux ==
    {SelectSeq(<<Prop("Type", "select"), Prop("Meta", "rich_text"),
                 Prop("Date du changement", "date")>>,
               LAMBDA p : p.name \in keep) :
        keep \in SUBSET {"Type", "Meta", "Date du changement"}}
LogSchemas == {t \o a : t \in LogTitles, a \in LogAux}
LogAnswers == {Refused} \cup {Answer(TRUE, s) : s \in LogSchemas}

\* The two extreme layouts, for the routes whose log write is a side effect.
SvcLogAnswers ==
    {Refused, Answer(TRUE, <<>>),
     Answer(TRUE, <<Prop("Titre", "title"), Prop("Type", "select"),
                    Prop("Meta", "rich_text"),
                    Prop("Date du changement", "date")>>)}

\* Rows of a query answer.  The rows of a database conform to its schema:
\* a row carries some of the properties of the schema, each under the type
\* the schema declares, and a title-typed one carries a list of text runs.
Runs == {<<>>, <<<<"a">>>>, <<<<"a">>, <<"b", "c">>>>}
RowNames == {"Name", "title"}

CellsOf(p) ==
    IF p.type = "title" THEN {Cell(p.name, "title", r) : r \in Runs}
    ELSE {Cell(p.name, p.type, <<>>)}

RECURSIVE RowCells(_)
RowCells(sch) ==
    IF sch = <<>> THEN {<<>>}
    ELSE LET rest == RowCells(Tail(sch))
         IN  rest \cup {<<c>> \o r : c \in CellsOf(Head(sch)), r \in rest}

RowKinds(sch) == {Row(PAGE_ID, cells) : cells \in RowCells(sch)}

RECURSIVE RowsOfLen(_, _)
RowsOfLen(sch, n) ==
    IF n = 0 THEN {<<>>}
    ELSE {Append(s, r) : s \in RowsOfLen(sch, n - 1), r \in RowKinds(sch)}

\* Answers to a query of a database with property names among names.
QueryAnswers(names, maxprops) ==
    {Refused}
    \cup UNION {{QueryAnswer(sch, rows) :
                    rows \in UNION {RowsOfLen(sch, k) : k \in 0..MaxRows}} :
                sch \in SchemasUpTo(names, maxprops)}

\* The remote store answers only the calls that are issued: an answer is
\* drawn from S when the call is issued, and is Refused otherwise.
Only(issued, S) == IF issued THEN S ELSE {Refused}

\* ------------------------------------------------------------ state machine
\* The environments of a deployment: every variable set or unset.
Envs ==
    {[NOTION_TOKEN |-> n, API_TOKEN |-> a, AUREL_TOKEN |-> u,
      FWK_DB_ID |-> f, MODULE_DB_ID |-> m, LOGS_DB_ID |-> l] :
        n \in {None, NOTION_SECRET}, a \in {None, S3CR3T},
        u \in {None, S3CR3T}, f \in {None, FWK_ID},
        m \in {None, MODULE_ID}, l \in {None, LOGS_ID}}

\* The environments in which both sides of a comparison resolve.
DiffEnvs ==
    {e \in Envs : /\ e.NOTION_TOKEN # None /\ e.FWK_DB_ID # None
                  /\ e.MODULE_DB_ID # None
                  /\ e.API_TOKEN = None /\ e.AUREL_TOKEN = None}

Idle ==
    /\ req = NoReq
    /\ resp = NoResp
    /\ calls = <<>>
    /\ logw = "none"

Init == env \in Envs /\ Idle

InitDiff == env \in DiffEnvs /\ Idle

\* The service answers request rq with what its handler left behind.
Respond(rq, out) ==
    /\ req' = rq
    /\ resp' = out.resp
    /\ calls' = out.calls
    /\ logw' = out.logw
    /\ UNCHANGED env

\* The response is sent; the service keeps nothing of the request.
Close ==
    /\ resp # NoResp
    /\ req' = NoReq
    /\ resp' = NoResp
    /\ calls' = <<>>
    /\ logw' = "none"
    /\ UNCHANGED env

ArchCompare(Reqs, RA, LA) ==
    /\ resp = NoResp
    /\ \E rq \in Reqs :
      \E r1 \in Only(arch_compare(rq, Refused, Refused, Refused, FALSE).calls # <<>>, RA) :
        \E r2 \in Only(r1.ok, RA) :
          \E lg \in Only(Len(arch_compare(rq, r1, r2, Refused, FALSE).calls) > 2, LA) :
            \E lc \in IF lg.ok THEN BOOLEAN ELSE {FALSE} :
              Respond(rq, arch_compare(rq, r1, r2, lg, lc))

ArchLogtest(Reqs, LA) ==
    /\ resp = NoResp
    /\ \E rq \in Reqs :
      \E lg \in Only(log_test(rq, Refused, FALSE).calls # <<>>, LA) :
        \E lc \in IF lg.ok THEN BOOLEAN ELSE {FALSE} :
          Respond(rq, log_test(rq, lg, lc))

ArchEdit(Reqs, RA, LA) ==
    /\ resp = NoResp
    /\ \E rq \in Reqs :
      \E sch \in Only(arch_edit_entry(rq, FALSE, <<>>, Refused, FALSE).calls # <<>>, RA \ {Refused}) :
        \E cr \in IF sch.ok THEN BOOLEAN ELSE {FALSE} :
          \E lg \in Only(Len(arch_edit_entry(rq, cr, sch.props, Refused, FALSE).calls) > 1, LA) :
            \E lc \in IF lg.ok THEN BOOLEAN ELSE {FALSE} :
              Respond(rq, arch_edit_entry(rq, cr, sch.props, lg, lc))

\* Whether the calls of a handler include one issued by function site.
Issues(out, site) == \E i \in 1..Len(out.calls) : out.calls[i].site = site

Aurel(Reqs, RA, LA) ==
    /\ resp = NoResp
    /\ \E rq \in Reqs :
      \E sch \in Only(Issues(aurel_router(rq, FALSE, <<>>, Refused, FALSE),
                             "edit_entry"), RA \ {Refused}) :
        \E cr \in IF sch.ok THEN BOOLEAN ELSE {FALSE} :
          \E lg \in Only(Issues(aurel_router(rq, cr, sch.props, Refused, FALSE),
                                "_create_log_entry"), LA) :
            \E lc \in IF lg.ok THEN BOOLEAN ELSE {FALSE} :
              Respond(rq, aurel_router(rq, cr, sch.props, lg, lc))

ArchAnalyse(Reqs, RA) ==
    /\ resp = NoResp
    /\ \E rq \in Reqs :
      \E r1 \in Only(analyse_base(rq, Refused).calls # <<>>, RA) :
        Respond(rq, analyse_base(rq, r1))

\* The metadata read of the queried database is refused or answers its
\* schema.
ArchRows(Reqs, QA) ==
    /\ resp = NoResp
    /\ \E rq \in Reqs :
      \E q \in Only(get_rows(rq, Refused, Refused).calls # <<>>, QA) :
        \E r1 \in Only(q.ok, {Refused, Answer(TRUE, q.props)}) :
          Respond(rq, get_rows(rq, q, r1))

ArchEnvStatus(Reqs) ==
    /\ resp = NoResp
    /\ \E rq \in Reqs : Respond(rq, debug_env_status)

PierreAnalyse(Reqs, RA) ==
    /\ resp = NoResp
    /\ \E rq \in Reqs :
      \E r1 \in Only(pierre_analyse(rq, Refused).calls # <<>>, RA) :
        Respond(rq, pierre_analyse(rq, r1))

PierreCompare(Reqs, RA) ==
    /\ resp = NoResp
    /\ \E rq \in Reqs :
      \E r1 \in Only(pierre_compare(rq, Refused, Refused).calls # <<>>, RA) :
        \E r2 \in Only(r1.ok, RA) :
          Respond(rq, pierre_compare(rq, r1, r2))

PierreLog(Reqs, LA) ==
    /\ resp = NoResp
    /\ \E rq \in Reqs :
      \E sch \in Only(create_log(rq, FALSE, <<>>).calls # <<>>, LA \ {Refused}) :
        \E cr \in IF sch.ok THEN BOOLEAN ELSE {FALSE} :
          Respond(rq, create_log(rq, cr, sch.props))

PierreLogtest(Reqs, LA) ==
    /\ resp = NoResp
    /\ \E rq \in Reqs :
      \E sch \in Only(logtest(rq, FALSE, <<>>).calls # <<>>, LA \ {Refused}) :
        \E cr \in IF sch.ok THEN BOOLEAN ELSE {FALSE} :
          Respond(rq, logtest(rq, cr, sch.props))

PierreEdit(Reqs, RA) ==
    /\ resp = NoResp
    /\ \E rq \in Reqs :
      \E sch \in Only(pierre_edit_entry(rq, FALSE, <<>>).calls # <<>>, RA \ {Refused}) :
        \E cr \in IF sch.ok THEN BOOLEAN ELSE {FALSE} :
          Respond(rq, pierre_edit_entry(rq, cr, sch.props))

PierreDelete(Reqs) ==
    /\ resp = NoResp
    /\ \E rq \in Reqs :
      \E cr \in IF delete_entry(rq, FALSE).calls # <<>> THEN BOOLEAN ELSE {FALSE} :
        Respond(rq, delete_entry(rq, cr))

PierreUpdate(Reqs) ==
    /\ resp = NoResp
    /\ \E rq \in Reqs :
      \E cr \in IF update_fields(rq, FALSE).calls # <<>> THEN BOOLEAN ELSE {FALSE} :
        Respond(rq, update_fields(rq, cr))

PierreSync(Reqs, RA) ==
    /\ resp = NoResp
    /\ \E rq \in Reqs :
      \E r1 \in Only(sync_schema(rq, Refused, Refused).calls # <<>>, RA) :
        \E r2 \in Only(r1.ok, RA) :
          Respond(rq, sync_schema(rq, r1, r2))

\* The two services under every deployment environment.
Next ==
    \/ ArchCompare(ArchCompareReqs, SvcAnswers, SvcLogAnswers)
    \/ ArchLogtest(ArchLogtestReqs, LogAnswers)
    \/ ArchEdit(ArchEditReqs, SvcAnswers, SvcLogAnswers)
    \/ Aurel(AurelReqs, SvcAnswers, SvcLogAnswers)
    \/ ArchAnalyse(ArchAnalyseReqs, SvcAnswers)
    \/ ArchRows(ArchRowsReqs, QueryAnswers(SvcNames, MaxSvcProps))
    \/ ArchEnvStatus(ArchEnvReqs)
    \/ PierreAnalyse(PierreAnalyseReqs, SvcAnswers)
    \/ PierreCompare(PierreCompareReqs, SvcAnswers)
    \/ PierreLog(PierreLogReqs, LogAnswers)
    \/ PierreLogtest(PierreLogtestReqs, LogAnswers)
    \/ PierreEdit(PierreEditReqs, SvcAnswers)
    \/ PierreDelete(PierreDeleteReqs)
    \/ PierreUpdate(PierreUpdateReqs)
    \/ PierreSync(PierreSyncReqs, SvcAnswers)
    \/ Close

Spec == Init /\ [][Next]_vars

\* The compare endpoints over every pair of schemas, where both sides resolve.
DiffReqsArch == {ArchReq("compare", <<None, None>>, "module", "FWK_DB_ID", {})}
DiffReqsPierre == {PierreReq("compare", None, "module", "FWK_DB_ID", None, {})}
DiffLogAnswers == {Refused, Answer(TRUE, <<Prop("Titre", "title")>>)}

NextDiff ==
    \/ ArchCompare(DiffReqsArch, DiffAnswers, DiffLogAnswers)
    \/ PierreCompare(DiffReqsPierre, DiffAnswers)
    \/ Close

SpecDiff == InitDiff /\ [][NextDiff]_vars

\* The specification of the rows endpoint: databases with a property named
\* "title" among them, with and without the client and the aliases.
RowsEnvs ==
    {e \in Envs : /\ e.API_TOKEN = None /\ e.AUREL_TOKEN = None
                  /\ e.LOGS_DB_ID = None}

InitRows == env \in RowsEnvs /\ Idle

NextRows ==
    \/ ArchRows(ArchRowsReqs, QueryAnswers(RowNames, MaxProps))
    \/ Close

SpecRows == InitRows /\ [][NextRows]_vars

\* ------------------------------------------------------------------ claims
Range(l) == {l[i] : i \in 1..Len(l)}

NoDuplicates(l) == \A i, j \in 1..Len(l) : l[i] = l[j] => i = j

\* Every property of the payload declares a type.
WellTyped(props) == \A i \in 1..Len(props) : props[i].type # NoType

\* A compare request whose two metadata reads were answered: the current
\* schema is the first answer, the reference schema the second.
Compared ==
    /\ req.route = "compare"
    /\ Len(calls) >= 2
    /\ calls[1].ok
    /\ calls[2].ok

CurrentSchema == calls[1].props
ReferenceSchema == calls[2].props

\* The names present on both sides whose declared types differ.
Mismatched(ref, cur) ==
    {k \in Names(ref) \cap Names(cur) : TypeOf(ref, k) # TypeOf(cur, k)}

\* C1: for every pair of schemas, compare returns missing = the names of the
\* reference absent from the current schema, extra = the names of the current
\* schema absent from the reference, type_mismatch = the names on both sides
\* whose declared types differ, each name once and in one list only; two
\* empty schemas give three empty lists.  (On Pierre, for payloads in which
\* every property declares its type.)
C1_CompareLists ==
    (Compared /\ (req.app = "architecte"
                  \/ (WellTyped(CurrentSchema) /\ WellTyped(ReferenceSchema))))
    => /\ resp.status = 200
       /\ Range(resp.missing) = Names(ReferenceSchema) \ Names(CurrentSchema)
       /\ Range(resp.extra) = Names(CurrentSchema) \ Names(ReferenceSchema)
       /\ Range(resp.type_mismatch) = Mismatched(ReferenceSchema, CurrentSchema)
       /\ NoDuplicates(resp.missing \o resp.extra \o resp.type_mismatch)
       /\ (CurrentSchema = <<>> /\ ReferenceSchema = <<>>
           => resp.missing = <<>> /\ resp.extra = <<>> /\ resp.type_mismatch = <<>>)

\* C1 witness: a comparison on the Architecte API whose three lists are all
\* non-empty.
C1_Witness ==
    /\ Compared
    /\ req.app = "architecte"
    /\ resp.status = 200
    /\ resp.missing # <<>>
    /\ resp.extra # <<>>
    /\ resp.type_mismatch # <<>>

\* l lists some of the keys of props, in the key order of props.
InKeyOrderOf(l, props) == l = SelectSeq(Keys(props), LAMBDA k : k \in Range(l))

\* C2: in the result of compare, missing and type_mismatch follow the key
\* order of the reference schema and extra the key order of the current
\* schema, on both services.
C2_CompareOrder ==
    (Compared /\ resp.status = 200)
    => /\ InKeyOrderOf(resp.missing, ReferenceSchema)
       /\ InKeyOrderOf(resp.type_mismatch, ReferenceSchema)
       /\ InKeyOrderOf(resp.extra, CurrentSchema)

\* The endpoints the specification marks token-gated.
GatedRoutes == {"compare", "edit", "delete", "update", "sync", "logtest", "log"}

\* The shared secret of the service that received the request.
ServerSecret ==
    IF req.app = "architecte" THEN getenv("API_TOKEN") ELSE getenv("AUREL_TOKEN")

SecretConfigured == Truthy(ServerSecret)

\* The secrets a request carries: in a token header, or as a bearer
\* credential.
Credentials(rq) ==
    ({rq.x_token, rq.x_aurel_token}
     \cup {t \in {S3CR3T, WRONG} :
             rq.authorization \in {Bearer(t), BEARER_PADDED(t)}})
    \ {None, <<>>}

Rejected == resp.status \in {401, 403}

\* C3: with a server secret configured, every token-gated endpoint rejects a
\* request that does not carry the valid secret and issues no remote call
\* for it.
C3_GatedRejects ==
    (req.route \in GatedRoutes /\ SecretConfigured
     /\ ServerSecret \notin Credentials(req))
    => Rejected /\ calls = <<>>

\* C4: with no server secret configured, every request to a token-gated
\* endpoint passes the token check, whatever token header it carries.
C4_NoSecretNoCheck ==
    (req.route \in GatedRoutes /\ ~SecretConfigured) => ~Rejected

\* C5: with a server secret configured, a request to a token-gated endpoint
\* that carries no secret is answered 401, and one that carries a different
\* secret is answered 403.
C5_StatusCodes ==
    (req.route \in GatedRoutes /\ SecretConfigured)
    => /\ Credentials(req) = {} => resp.status = 401
       /\ (Credentials(req) # {} /\ ServerSecret \notin Credentials(req))
          => resp.status = 403

\* The variable that configures each alias.
AliasVar(db) ==
    CASE db = "fwk" -> "FWK_DB_ID"
      [] db = "module" -> "MODULE_DB_ID"
      [] db = "logs" -> "LOGS_DB_ID"
      [] OTHER -> "AGENT_DB_ID"

AliasConfigured(db) == Truthy(getenv(AliasVar(db)))

\* The endpoints that take a database alias.
AliasRoutes == {"analyse", "rows", "compare", "edit", "sync"}

\* C6: every authorized request to an endpoint that takes a database alias
\* fails with status 400 when the alias has no configured identifier.
C6_UnknownAlias400 ==
    (req.route \in AliasRoutes /\ ~AliasConfigured(req.db) /\ ~Rejected)
    => resp.status = 400

\* C7: a failed log write never fails the request that triggered it: compare,
\* edit, logtest and log answer with success all the same.
C7_LogFailureContained ==
    (req.route \in {"compare", "edit", "logtest", "log"} /\ logw = "failed")
    => resp.status = 200

\* The page creations that are log writes.
IsLogWrite(c) ==
    /\ c.site \in {"_create_log_entry", "create_log", "logtest"}
    /\ c.op \in {"pages.create", "POST /v1/pages"}

\* C8: every property name in the payload of a log write is a property of
\* the schema of the logs database.
C8_LogPayloadInSchema ==
    \A i \in 1..Len(calls) :
        IsLogWrite(calls[i]) => calls[i].keys \subseteq Names(calls[i].props)

\* C9: the masked field /debug/env_status reports for a configured value is
\* never the raw value.
C9_MaskedNeverRaw ==
    req.route = "env_status"
    => \A i \in 1..Len(resp.report) :
          resp.report[i].present
          => resp.report[i].masked # getenv(resp.report[i].key)

\* The alias or the reference of a compare or sync request does not resolve.
Unresolved ==
    \/ ~AliasConfigured(req.db)
    \/ req.route = "compare" /\ ~Truthy(getenv(req.ref))
    \/ req.route = "sync" /\ ~AliasConfigured("fwk")

\* C10: on compare and sync, an unresolved alias or reference is answered
\* 400 before any remote call: no 400 of these endpoints follows a remote
\* call.
C10_ValidationBeforeRemote ==
    req.route \in {"compare", "sync"}
    => /\ (Unresolved /\ ~Rejected) => (resp.status = 400 /\ calls = <<>>)
       /\ resp.status = 400 => calls = <<>>

\* C10 witness: a compare request whose alias resolves and whose reference
\* does not, on a service that could have read the current schema.
C10_Witness ==
    /\ req.route = "compare"
    /\ req.app = "architecte"
    /\ AliasConfigured(req.db)
    /\ ~Truthy(getenv(req.ref))
    /\ notion
    /\ resp.status = 400
    /\ calls = <<>>


\* The answer of the service to the same comparison with the two schemas
\* exchanged: the reference answered as the current database and the current
\* database as the reference.
SwappedCompare ==
    IF req.app = "architecte"
    THEN arch_compare(req, Answer(TRUE, ReferenceSchema),
                      Answer(TRUE, CurrentSchema), Refused, FALSE).resp
    ELSE pierre_compare(req, Answer(TRUE, ReferenceSchema),
                        Answer(TRUE, CurrentSchema)).resp

\* C11: exchanging the two schemas of a comparison exchanges missing and
\* extra: the missing list of diff(reference = B, current = A) is, as a list,
\* the extra list of diff(reference = A, current = B), and the other way
\* round, on both services.
C11_SwapSymmetry ==
    (Compared /\ resp.status = 200)
    => /\ SwappedCompare.status = 200
       /\ SwappedCompare.extra = resp.missing
       /\ SwappedCompare.missing = resp.extra

\* C11 witness: a comparison on Pierre whose missing list has two names, so
\* that their order counts, and whose extra list is not empty.
C11_Witness ==
    /\ Compared
    /\ req.app = "pierre"
    /\ resp.status = 200
    /\ Len(resp.missing) >= 2
    /\ resp.extra # <<>>
    /\ SwappedCompare.extra = resp.missing


\* The rows endpoint was answered by the remote query.
RowsQueried ==
    /\ req.route = "rows"
    /\ calls # <<>>
    /\ calls[1].ok

\* The schema of the queried database, and whether its read was answered.
QueriedSchema == calls[1].props
SchemaRead == Len(calls) >= 2 /\ calls[2].ok

HasTitleProp(sch) == \E i \in 1..Len(sch) : sch[i].type = "title"

\* The first title-typed property of a schema that has one.
FirstTitleProp(sch) ==
    sch[CHOOSE i \in 1..Len(sch) :
            /\ sch[i].type = "title"
            /\ \A j \in 1..(i - 1) : sch[j].type # "title"].name

HasCell(cells, n) == \E i \in 1..Len(cells) : cells[i].name = n
CellNamed(cells, n) == cells[CHOOSE i \in 1..Len(cells) : cells[i].name = n]

\* The text of a list of runs, in order.
RECURSIVE Concat(_)
Concat(runs) ==
    IF runs = <<>> THEN <<>>
    ELSE Concat(SubSeq(runs, 1, Len(runs) - 1)) \o runs[Len(runs)]

\* The title of a row of a database of schema sch, as stated: empty without
\* a title-typed property in the schema, without that property in the row,
\* or without runs; the text of the runs otherwise.
StatedTitle(cells, sch) ==
    IF ~HasTitleProp(sch) THEN <<>>
    ELSE IF ~HasCell(cells, FirstTitleProp(sch)) THEN <<>>
    ELSE IF CellNamed(cells, FirstTitleProp(sch)).title = <<>> THEN <<>>
    ELSE Concat(CellNamed(cells, FirstTitleProp(sch)).title)

\* The title of a row under the default property name "title".
DefaultTitle(cells) ==
    IF HasCell(cells, "title") /\ CellNamed(cells, "title").type = "title"
    THEN Concat(CellNamed(cells, "title").title)
    ELSE <<>>

IsPageCreation(c) == c.op \in {"pages.create", "POST /v1/pages"}

\* C13: with a server secret configured, no route of either service, the
\* /aurel dispatcher included, issues a page-creation call for a request
\* that does not carry the valid secret.
C13_NoCreationWithoutSecret ==
    (SecretConfigured /\ ServerSecret \notin Credentials(req))
    => \A i \in 1..Len(calls) : ~IsPageCreation(calls[i])

=============================================================================
